---- MODULE Spec2Model ----
(***************************************************************************)
(* Task tracker: TaskManager (file-backed task store) and TaskReporting    *)
(* (read-only reports over the tasks file).                                *)
(*                                                                         *)
(* Strings whose characters matter (title, description, keyword) are       *)
(* sequences of one-character strings.  Status labels are atomic strings:  *)
(*   "active" = aktivnaya, "completed" = zavershennaya,                    *)
(*   "unknown" = neizvestno.                                               *)
(* Timestamps are integer ticks of the local clock; isoformat strings      *)
(* compare like the instants they denote.  0 stands for a falsy timestamp  *)
(* (None), a real instant is >= 1.                                         *)
(* An optional argument is <<>> (None) or <<v>> (the value v).             *)
(***************************************************************************)
EXTENDS Integers, Sequences, FiniteSets, TLC

VARIABLES
    tasks,      \* TaskManager.tasks: sequence of Task objects
    file,       \* tasks.json: [state, data]
    clock,      \* last instant datetime.now() returned
    ret,        \* what the last call returned
    snapshot,   \* TaskReporting.tasks: sequence of dicts
    retired     \* history: the ids delete_task has removed so far

vars == <<tasks, file, clock, ret, snapshot, retired>>

----------------------------------------------------------------------------
(* Bounds *)
MaxTasks == 2
MaxId == MaxTasks + 1
MaxClock == 2
MaxSnap == 2
MaxDays == 2
TicksPerDay == 2

None == <<>>
Some(v) == <<v>>
IsNone(o) == Len(o) = 0
Val(o) == o[1]

NoTime == 0

STATUS_ACTIVE == "active"
STATUS_COMPLETED == "completed"

----------------------------------------------------------------------------
(* str helpers *)
IsSpace(c) == c = " "

RECURSIVE lstrip(_)
lstrip(s) == IF s # <<>> /\ IsSpace(Head(s)) THEN lstrip(Tail(s)) ELSE s

RECURSIVE rstrip(_)
rstrip(s) == IF s # <<>> /\ IsSpace(s[Len(s)]) THEN rstrip(SubSeq(s, 1, Len(s) - 1)) ELSE s

strip(s) == rstrip(lstrip(s))

LowerChar(c) == IF c = "A" THEN "a" ELSE IF c = "B" THEN "b" ELSE IF c = "U" THEN "u" ELSE c

lower(s) == [i \in 1..Len(s) |-> LowerChar(s[i])]

\* Python's `sub in s`
Contains(sub, s) == \E i \in 0..(Len(s) - Len(sub)) : SubSeq(s, i + 1, i + Len(sub)) = sub

----------------------------------------------------------------------------
(* Task *)
TimeOr(t, now) == IF t = NoTime THEN now ELSE t

\* Task.__init__: created_at is read from the clock first (now1), updated_at second (now2)
TaskInit(id, title, description, status, created_at, updated_at, now1, now2) ==
    [id |-> id, title |-> title, description |-> description, status |-> status,
     created_at |-> TimeOr(created_at, now1), updated_at |-> TimeOr(updated_at, now2)]

\* to_dict writing created_at under both timestamp keys
to_dict_stale(t) ==
    [id |-> t.id, title |-> t.title, description |-> t.description, status |-> t.status,
     created_at |-> t.created_at, updated_at |-> t.created_at]

to_dict(t) ==
    [id |-> t.id, title |-> t.title, description |-> t.description, status |-> t.status,
     created_at |-> t.created_at, updated_at |-> t.updated_at]

DictGet(d, k, default) == IF k \in DOMAIN d THEN d[k] ELSE default

from_dict(data, now) ==
    TaskInit(data["id"], data["title"], data["description"], data["status"],
             DictGet(data, "created_at", NoTime), DictGet(data, "updated_at", NoTime),
             now, now)

----------------------------------------------------------------------------
(* TaskManager *)
AbsentFile == [state |-> "absent", data |-> <<>>]
CorruptFile == [state |-> "corrupt", data |-> <<>>]
JsonFile(d) == [state |-> "json", data |-> d]

load_tasks(f, now) ==
    IF f.state = "json" THEN [i \in 1..Len(f.data) |-> from_dict(f.data[i], now)] ELSE <<>>

save_tasks(ts) == JsonFile([i \in 1..Len(ts) |-> to_dict(ts[i])])

RECURSIVE MaxOf(_, _)
MaxOf(ids, default) ==
    IF ids = <<>> THEN default
    ELSE LET m == MaxOf(Tail(ids), default)
         IN IF ids = <<Head(ids)>> THEN Head(ids)
            ELSE IF Head(ids) >= m THEN Head(ids) ELSE m

\* the next id taken from the number of tasks
NewIdByCount(ts) == Len(ts) + 1

NewId(ts) == MaxOf([i \in 1..Len(ts) |-> ts[i].id], 0) + 1

\* the title test without strip()
TitleRejectedUnstripped(title) == title = <<>>

TitleRejected(title) == strip(title) = <<>>

\* index of the first task with this id, 0 for None
get_task(ts, task_id) ==
    IF \E i \in 1..Len(ts) : ts[i].id = task_id
    THEN CHOOSE i \in 1..Len(ts) : ts[i].id = task_id /\ \A j \in 1..(i - 1) : ts[j].id # task_id
    ELSE 0

\* update_fields with `description or ""`
update_fields_clearing(t, title, description, status, now) ==
    [t EXCEPT !.title = IF IsNone(title) THEN @ ELSE Val(title),
              !.description = IF IsNone(description) THEN <<>> ELSE Val(description),
              !.status = IF IsNone(status) THEN @ ELSE Val(status),
              !.updated_at = now]

update_fields(t, title, description, status, now) ==
    [t EXCEPT !.title = IF IsNone(title) THEN @ ELSE Val(title),
              !.description = IF IsNone(description) THEN @ ELSE Val(description),
              !.status = IF IsNone(status) THEN @ ELSE Val(status),
              !.updated_at = now]

delete_from(ts, task_id) == SelectSeq(ts, LAMBDA t : t.id # task_id)

\* Python truthiness of an optional status label / an optional keyword
TruthyStatus(o) == ~IsNone(o) /\ Val(o) # ""

TruthyText(o) == ~IsNone(o) /\ Val(o) # <<>>

\* filter_tasks comparing the keyword as typed against the lowered texts
filter_tasks_exact_case(ts, status, keyword) ==
    LET byStatus == IF TruthyStatus(status) THEN SelectSeq(ts, LAMBDA t : t.status = Val(status)) ELSE ts
        kw == Val(keyword)
    IN IF TruthyText(keyword)
       THEN SelectSeq(byStatus, LAMBDA t : Contains(kw, lower(t.title)) \/ Contains(kw, lower(t.description)))
       ELSE byStatus

filter_tasks(ts, status, keyword) ==
    LET byStatus == IF TruthyStatus(status) THEN SelectSeq(ts, LAMBDA t : t.status = Val(status)) ELSE ts
        kl == lower(Val(keyword))
    IN IF TruthyText(keyword)
       THEN SelectSeq(byStatus, LAMBDA t : Contains(kl, lower(t.title)) \/ Contains(kl, lower(t.description)))
       ELSE byStatus

----------------------------------------------------------------------------
(* Inputs of the store *)
Titles == { <<>>, <<" ">>, <<"B", "u">> }
NewTitles == { None, Some(<<" ">>) }
NewDescriptions == { None, Some(<<"b">>) }
Statuses == { STATUS_COMPLETED }
NewStatuses == { None, Some(STATUS_COMPLETED) }
Ids == 0..MaxId
Delays == 0..1
\* (title, description, status) of update_task: nothing supplied, the title alone,
\* description and status together
UpdateArgs ==
    { <<None, None, None>>, <<Some(<<" ">>), None, None>>,
      <<None, Some(<<"b">>), Some(STATUS_COMPLETED)>> }
FilterTitles == { <<"B", "u">>, <<"o">> }
FilterDescriptions == { <<>>, <<"a", "b", "U">> }
FilterStatuses == { None, Some(""), Some(STATUS_ACTIVE), Some(STATUS_COMPLETED) }
Keywords == { None, Some(<<>>), Some(<<"b", "U">>), Some(<<"O">>) }

----------------------------------------------------------------------------
Init ==
    /\ file \in {AbsentFile, CorruptFile}
    /\ clock = 1
    /\ tasks = load_tasks(file, clock)
    /\ ret = [kind |-> "init"]
    /\ snapshot = <<>>
    /\ retired = {}

\* TaskManager(): a fresh manager over the same file
Restart ==
    /\ tasks' = load_tasks(file, clock)
    /\ ret' = [kind |-> "init"]
    /\ UNCHANGED <<file, clock, snapshot, retired>>

CreateTask(title, description, d1, d2) ==
    IF TitleRejected(title)
    THEN /\ d1 = 0 /\ d2 = 0
         /\ ret' = [kind |-> "none", msg |-> "empty_title"]
         /\ UNCHANGED <<tasks, file, clock, snapshot, retired>>
    ELSE LET now1 == clock + d1
             now2 == now1 + d2
             task == TaskInit(NewId(tasks), title, description, STATUS_ACTIVE,
                              NoTime, NoTime, now1, now2)
         IN /\ Len(tasks) < MaxTasks
            /\ NewId(tasks) <= MaxId
            /\ now2 <= MaxClock
            /\ tasks' = Append(tasks, task)
            /\ file' = save_tasks(tasks')
            /\ clock' = now2
            /\ ret' = [kind |-> "task", task |-> task, msg |-> "created"]
            /\ UNCHANGED <<snapshot, retired>>

UpdateTask(task_id, title, description, status, d) ==
    LET i == get_task(tasks, task_id)
        now == clock + d
    IN IF i = 0
       THEN /\ d = 0
            /\ ret' = [kind |-> "flag", ok |-> FALSE, msg |-> "not_found"]
            /\ UNCHANGED <<tasks, file, clock, snapshot, retired>>
       ELSE /\ now <= MaxClock
            /\ tasks' = [tasks EXCEPT ![i] = update_fields(@, title, description, status, now)]
            /\ file' = save_tasks(tasks')
            /\ clock' = now
            /\ ret' = [kind |-> "flag", ok |-> TRUE, msg |-> "updated"]
            /\ UNCHANGED <<snapshot, retired>>

ChangeStatus(task_id, new_status, d) == UpdateTask(task_id, None, None, Some(new_status), d)

delete_task(task_id) ==
    IF get_task(tasks, task_id) = 0
    THEN /\ ret' = [kind |-> "flag", ok |-> FALSE, msg |-> "not_found"]
         /\ UNCHANGED <<tasks, file, clock, snapshot>>
    ELSE /\ tasks' = delete_from(tasks, task_id)
         /\ file' = save_tasks(tasks')
         /\ ret' = [kind |-> "flag", ok |-> TRUE, msg |-> "deleted"]
         /\ UNCHANGED <<clock, snapshot>>

DeleteTask(task_id) == delete_task(task_id) /\ UNCHANGED retired

\* delete_task, with the removed id added to the history
DeleteTaskRecorded(task_id) ==
    /\ delete_task(task_id)
    /\ retired' = IF get_task(tasks, task_id) = 0 THEN retired ELSE retired \cup {task_id}

FilterTasks(status, keyword) ==
    /\ ret' = [kind |-> "list", items |-> filter_tasks(tasks, status, keyword)]
    /\ UNCHANGED <<tasks, file, clock, snapshot, retired>>

\* The store with a clock that does not advance between calls
Next ==
    \/ Restart
    \/ \E title \in Titles : CreateTask(title, <<>>, 0, 0)
    \/ \E task_id \in Ids, title \in NewTitles, description \in NewDescriptions,
          status \in NewStatuses :
          UpdateTask(task_id, title, description, status, 0)
    \/ \E task_id \in Ids, new_status \in Statuses : ChangeStatus(task_id, new_status, 0)
    \/ \E task_id \in Ids : DeleteTask(task_id)

Spec == Init /\ [][Next]_vars

\* The store under a clock that may advance at every read
NextUpdate ==
    \/ Restart
    \/ \E task_id \in Ids : DeleteTask(task_id)
    \/ \E d1 \in Delays, d2 \in Delays : CreateTask(<<"B", "u">>, <<>>, d1, d2)
    \/ \E task_id \in Ids, a \in UpdateArgs, d \in Delays :
          UpdateTask(task_id, a[1], a[2], a[3], d)

SpecUpdate == Init /\ [][NextUpdate]_vars

\* The store with the history of deleted ids
NextHistory ==
    \/ Restart
    \/ \E title \in Titles : CreateTask(title, <<>>, 0, 0)
    \/ \E task_id \in Ids, title \in NewTitles : UpdateTask(task_id, title, None, None, 0)
    \/ \E task_id \in Ids : DeleteTaskRecorded(task_id)

SpecHistory == Init /\ [][NextHistory]_vars

\* The store with texts and statuses to filter on
NextFilter ==
    \/ \E title \in FilterTitles, description \in FilterDescriptions :
          CreateTask(title, description, 0, 0)
    \/ \E task_id \in Ids, new_status \in Statuses : ChangeStatus(task_id, new_status, 0)
    \/ \E task_id \in Ids : DeleteTask(task_id)
    \/ \E status \in FilterStatuses, keyword \in Keywords : FilterTasks(status, keyword)

SpecFilter == Init /\ [][NextFilter]_vars

----------------------------------------------------------------------------
(* TaskReporting *)
\* calendar date, hour of the day and weekday of an instant
Date(t) == t \div TicksPerDay

Hour(t) == t % TicksPerDay

Weekday(t) == Date(t) % 7

\* '2000-01-01', the created_at of a dict without one: the origin of the time axis
DEFAULT_CREATED_AT == 0

\* the date of most_active_day when no day has a task ("Net dannykh")
NO_DAY == -1

NoData == [kind |-> "error", error |-> "no_data"]

PeriodKeys == { "today", "week", "month" }

period_map(period) ==
    CASE period = "today" -> 1
      [] period = "week" -> 7
      [] period = "month" -> 30

created_at(task) == DictGet(task, "created_at", DEFAULT_CREATED_AT)

status_of(task) == DictGet(task, "status", "unknown")

_load_tasks(f) == IF f.state = "json" THEN f.data ELSE <<>>

TruthyInt(o) == ~IsNone(o) /\ Val(o) # 0

\* a date string is [ok |-> TRUE, t |-> instant] or, malformed, [ok |-> FALSE]
_filter_tasks_by_date(ts, period_days, start_date, end_date, now) ==
    SelectSeq(ts, LAMBDA task :
        IF TruthyInt(period_days)
        THEN created_at(task) >= now - Val(period_days) * TicksPerDay
        ELSE IF ~IsNone(start_date) /\ ~IsNone(end_date)
             THEN /\ Val(start_date).ok /\ Val(end_date).ok
                  /\ Val(start_date).t <= created_at(task)
                  /\ created_at(task) <= Val(end_date).t
             ELSE FALSE)

\* a defaultdict(int) filled key by key: <<[key, n], ...>> in insertion order
RECURSIVE CountBy(_)
CountBy(keys) ==
    IF keys = <<>> THEN <<>>
    ELSE LET front == CountBy(SubSeq(keys, 1, Len(keys) - 1))
             k == keys[Len(keys)]
         IN IF \E i \in 1..Len(front) : front[i].key = k
            THEN [i \in 1..Len(front) |->
                     IF front[i].key = k THEN [front[i] EXCEPT !.n = @ + 1] ELSE front[i]]
            ELSE Append(front, [key |-> k, n |-> 1])

CountOf(counts, k) ==
    IF \E i \in 1..Len(counts) : counts[i].key = k
    THEN (CHOOSE c \in {counts[i] : i \in 1..Len(counts)} : c.key = k).n
    ELSE 0

\* max(items, key=count): the first item with the largest count
MaxItem(items, default) ==
    IF items = <<>> THEN default
    ELSE items[CHOOSE i \in 1..Len(items) :
                  /\ \A j \in 1..Len(items) : items[j].n <= items[i].n
                  /\ \A j \in 1..(i - 1) : items[j].n < items[i].n]

\* round(num / den, 2), in hundredths
Round2(num, den) == (2 * 100 * num + den) \div (2 * den)

\* the statistics of generate_summary_report over the tasks in the period
summary_of(filtered_tasks, period) ==
    LET total_tasks == Len(filtered_tasks)
        status_count == CountBy([i \in 1..total_tasks |-> status_of(filtered_tasks[i])])
        completed == CountOf(status_count, STATUS_COMPLETED)
        tasks_by_day == CountBy([i \in 1..total_tasks |-> Date(created_at(filtered_tasks[i]))])
        most_active_day == MaxItem(tasks_by_day, [key |-> NO_DAY, n |-> 0])
    IN [kind |-> "summary",
        period |-> period,
        total_tasks |-> total_tasks,
        status_distribution |-> status_count,
        completion_rate |-> IF total_tasks > 0 THEN Round2(completed * 100, total_tasks) ELSE 0,
        most_active_day |-> [date |-> most_active_day.key, tasks_created |-> most_active_day.n],
        average_tasks_per_day |->
            IF tasks_by_day # <<>> THEN Round2(total_tasks, Len(tasks_by_day)) ELSE 0]

tasks_in_period(snap, period, now) ==
    IF period \in PeriodKeys
    THEN _filter_tasks_by_date(snap, Some(period_map(period)), None, None, now)
    ELSE snap

\* generate_summary_report answering "no data" for an empty period as well
generate_summary_report_strict(snap, period, now) ==
    IF snap = <<>> \/ tasks_in_period(snap, period, now) = <<>> THEN NoData
    ELSE summary_of(tasks_in_period(snap, period, now), period)

generate_summary_report(snap, period, now) ==
    IF snap = <<>> THEN NoData
    ELSE summary_of(tasks_in_period(snap, period, now), period)

generate_status_report(snap) ==
    IF snap = <<>> THEN NoData
    ELSE LET groups == CountBy([i \in 1..Len(snap) |-> status_of(snap[i])])
             members(st) == SelectSeq(snap, LAMBDA t : status_of(t) = st)
             first5(g) == SubSeq(g, 1, IF Len(g) < 5 THEN Len(g) ELSE 5)
         IN [kind |-> "status",
             report |-> [i \in 1..Len(groups) |->
                 [status |-> groups[i].key,
                  count |-> Len(members(groups[i].key)),
                  percentage |-> Round2(Len(members(groups[i].key)) * 100, Len(snap)),
                  tasks |-> [j \in 1..Len(first5(members(groups[i].key))) |->
                                [id |-> members(groups[i].key)[j].id,
                                 title |-> members(groups[i].key)[j].title]]]]]

\* one entry of the timeline: the tasks created on the day of current_date
timeline_entry(snap, current_date) ==
    LET daily_tasks == SelectSeq(snap, LAMBDA t : Date(created_at(t)) = Date(current_date))
    IN [date |-> Date(current_date),
        total_tasks |-> Len(daily_tasks),
        statuses |-> CountBy([j \in 1..Len(daily_tasks) |-> status_of(daily_tasks[j])])]

\* generate_timeline_report looping over range(days)
generate_timeline_report_short(snap, days, now) ==
    IF snap = <<>> THEN NoData
    ELSE [kind |-> "timeline",
          period_days |-> days,
          timeline |-> [i \in 1..days |->
                           timeline_entry(snap, (now - days * TicksPerDay) + (i - 1) * TicksPerDay)]]

generate_timeline_report(snap, days, now) ==
    IF snap = <<>> THEN NoData
    ELSE LET start_date == now - days * TicksPerDay
         IN [kind |-> "timeline",
             period_days |-> days,
             timeline |-> [i \in 1..(days + 1) |->
                              timeline_entry(snap, start_date + (i - 1) * TicksPerDay)]]

generate_productivity_report(snap) ==
    IF snap = <<>> THEN NoData
    ELSE LET weekday_stats == CountBy([i \in 1..Len(snap) |-> Weekday(created_at(snap[i]))])
             hour_stats == CountBy([i \in 1..Len(snap) |-> Hour(created_at(snap[i]))])
             most_productive_day == MaxItem(weekday_stats, [key |-> NO_DAY, n |-> 0])
             most_productive_hour == MaxItem(hour_stats, [key |-> -1, n |-> 0])
         IN [kind |-> "productivity",
             by_weekday |-> weekday_stats,
             by_hour |-> hour_stats,
             most_productive |->
                 [day |-> most_productive_day.key,
                  day_count |-> most_productive_day.n,
                  hour |-> <<most_productive_hour.key, most_productive_hour.key + 1>>,
                  hour_count |-> most_productive_hour.n]]

----------------------------------------------------------------------------
(* Inputs of the reports *)
\* the first instant of a day late enough for a month to lie before it
Epoch == 31 * TicksPerDay

NowChoices == { Epoch, Epoch + TicksPerDay - 1 }
\* today, late yesterday, two days ago, eight days ago
CreatedChoices == { Epoch, Epoch - 1, Epoch - 2 * TicksPerDay, Epoch - 8 * TicksPerDay }
ReportStatuses == { STATUS_ACTIVE, STATUS_COMPLETED }
Periods == { "today", "week", "month", "all" }
PeriodDayChoices == { None, Some(1) }
Malformed == [ok |-> FALSE]
DateString(t) == [ok |-> TRUE, t |-> t]
DateRanges ==
    { <<None, None>>,
      <<Some(DateString(Epoch - 2 * TicksPerDay)), Some(DateString(Epoch))>>,
      <<Some(Malformed), Some(DateString(Epoch))>> }

\* the files a store can have written: ids 1..n, both timestamps set
StoredFile(stamps, statuses) ==
    JsonFile([i \in 1..Len(stamps) |->
        to_dict(TaskInit(i, <<"B", "u">>, <<>>, statuses[i], stamps[i], stamps[i], NoTime, NoTime))])

InitReport ==
    /\ clock \in NowChoices
    /\ \/ file \in {AbsentFile, CorruptFile}
       \/ \E n \in 0..MaxSnap :
             \E stamps \in [1..n -> CreatedChoices], statuses \in [1..n -> ReportStatuses] :
                file = StoredFile(stamps, statuses)
    /\ snapshot = _load_tasks(file)
    /\ tasks = <<>>
    /\ ret = [kind |-> "init"]
    /\ retired = {}

FilterByDate(period_days, start_date, end_date) ==
    /\ ret' = [kind |-> "list",
               items |-> _filter_tasks_by_date(snapshot, period_days, start_date, end_date, clock)]
    /\ UNCHANGED <<tasks, file, clock, snapshot, retired>>

SummaryReport(period) ==
    /\ ret' = generate_summary_report(snapshot, period, clock)
    /\ UNCHANGED <<tasks, file, clock, snapshot, retired>>

StatusReport ==
    /\ ret' = generate_status_report(snapshot)
    /\ UNCHANGED <<tasks, file, clock, snapshot, retired>>

TimelineReport(days) ==
    /\ ret' = generate_timeline_report(snapshot, days, clock)
    /\ UNCHANGED <<tasks, file, clock, snapshot, retired>>

ProductivityReport ==
    /\ ret' = generate_productivity_report(snapshot)
    /\ UNCHANGED <<tasks, file, clock, snapshot, retired>>

NextReport ==
    \/ \E period_days \in PeriodDayChoices, range \in DateRanges :
          FilterByDate(period_days, range[1], range[2])
    \/ \E period \in Periods : SummaryReport(period)
    \/ StatusReport
    \/ \E days \in 0..MaxDays : TimelineReport(days)
    \/ ProductivityReport

SpecReport == InitReport /\ [][NextReport]_vars

----------------------------------------------------------------------------
(* Properties of the store *)
HasId(ts, task_id) == \E i \in 1..Len(ts) : ts[i].id = task_id

Succeeded == (ret.kind = "task") \/ (ret.kind = "flag" /\ ret.ok)

NotFound == [kind |-> "flag", ok |-> FALSE, msg |-> "not_found"]

\* C1: in every reachable state of the store no two live tasks share an id and
\* every id is a strictly positive integer.
IdsUniqueAndPositive ==
    \A i \in 1..Len(tasks) :
        /\ tasks[i].id \in Nat /\ tasks[i].id >= 1
        /\ \A j \in 1..Len(tasks) : i # j => tasks[i].id # tasks[j].id

\* a task created after a deletion left a gap below it
IdsUniqueWitness ==
    /\ ret.kind = "task"
    /\ Len(tasks) = 2
    /\ tasks[1].id = 2 /\ tasks[2].id = 3

\* C2: once delete_task has removed the task with id k, no live task ever has
\* id k again (the allocator never hands a deleted id out a second time).
NoIdReuse == \A i \in 1..Len(tasks) : tasks[i].id \notin retired

\* C3: after a successful create/update/change_status/delete the file holds the
\* in-memory collection: a fresh manager loading it, at whatever instant, gets
\* the same tasks, field for field, in the same order.
PersistedEqualsMemory ==
    Succeeded =>
        /\ file.state = "json"
        /\ Len(file.data) = Len(tasks)
        /\ \A now \in 1..MaxClock :
              LET loaded == load_tasks(file, now)
              IN /\ Len(loaded) = Len(tasks)
                 /\ \A i \in 1..Len(tasks) :
                       /\ loaded[i].id = tasks[i].id
                       /\ loaded[i].title = tasks[i].title
                       /\ loaded[i].description = tasks[i].description
                       /\ loaded[i].status = tasks[i].status
                       /\ loaded[i].created_at = tasks[i].created_at
                       /\ loaded[i].updated_at = tasks[i].updated_at

PersistedWitness ==
    /\ ret.kind = "flag" /\ ret.ok /\ ret.msg = "updated"
    /\ Len(tasks) = 2
    /\ tasks[1].updated_at > tasks[1].created_at
    /\ tasks[1].description = <<"b">>

\* C4: a successful update_task changes, on the task with that id, only the
\* supplied fields among title/description/status plus updated_at; id and
\* created_at stay, updated_at does not decrease and is >= created_at; every
\* other task and the order of the collection stay.
UpdateFrame ==
    [][\A task_id \in Ids, a \in UpdateArgs :
          LET title == a[1]
              description == a[2]
              status == a[3]
          IN
          (/\ ret'.kind = "flag" /\ ret'.ok
           /\ UpdateTask(task_id, title, description, status, clock' - clock)) =>
             /\ Len(tasks') = Len(tasks)
             /\ \E i \in 1..Len(tasks) :
                   /\ tasks[i].id = task_id
                   /\ \A j \in 1..Len(tasks) : j # i => tasks'[j] = tasks[j]
                   /\ tasks'[i].id = tasks[i].id
                   /\ tasks'[i].created_at = tasks[i].created_at
                   /\ tasks'[i].title = (IF IsNone(title) THEN tasks[i].title ELSE Val(title))
                   /\ tasks'[i].description =
                         (IF IsNone(description) THEN tasks[i].description ELSE Val(description))
                   /\ tasks'[i].status = (IF IsNone(status) THEN tasks[i].status ELSE Val(status))
                   /\ tasks'[i].updated_at >= tasks[i].updated_at
                   /\ tasks'[i].created_at <= tasks'[i].updated_at]_vars

\* the second of two tasks was given a description and a status, not a title,
\* at an instant after its creation
UpdateFrameWitness ==
    /\ ret.kind = "flag" /\ ret.ok /\ ret.msg = "updated"
    /\ Len(tasks) = 2
    /\ tasks[2].status = STATUS_COMPLETED /\ tasks[2].description = <<"b">>
    /\ tasks[2].title = <<"B", "u">>
    /\ tasks[2].updated_at > tasks[2].created_at
    /\ tasks[1].status = STATUS_ACTIVE /\ tasks[1].description = <<>>

AllWhitespace(title) == \A i \in 1..Len(title) : title[i] = " "

\* C5: create_task with an empty or all-whitespace title returns (None, message),
\* update_task/change_status/delete_task on an id not in the collection return
\* (False, message); the collection and the file stay as they were, so the same
\* call fails the same way again.
FailureLeavesState ==
    [][/\ \A title \in Titles :
             (AllWhitespace(title) /\ CreateTask(title, <<>>, 0, 0)) =>
                /\ ret' = [kind |-> "none", msg |-> "empty_title"]
                /\ tasks' = tasks /\ file' = file
       /\ \A task_id \in Ids :
             (/\ ~HasId(tasks, task_id)
              /\ \/ \E title \in NewTitles, description \in NewDescriptions, status \in NewStatuses :
                       UpdateTask(task_id, title, description, status, 0)
                 \/ \E new_status \in Statuses : ChangeStatus(task_id, new_status, 0)
                 \/ DeleteTask(task_id)) =>
                /\ ret' = NotFound
                /\ tasks' = tasks /\ file' = file
                /\ ~HasId(tasks', task_id)]_vars

\* a call failed on a store that holds two tasks
FailureWitness ==
    /\ ret.kind \in {"none", "flag"}
    /\ ~Succeeded
    /\ Len(tasks) = 2
    /\ file = save_tasks(tasks)

\* C6: every live task has a title that is non-empty after trimming.
TitlesNonBlank == \A i \in 1..Len(tasks) : ~AllWhitespace(tasks[i].title)

\* `given` for filter_tasks: an argument that is neither None nor empty
Given(o) == ~IsNone(o) /\ Len(Val(o)) > 0

GivenStatus(o) == ~IsNone(o) /\ Val(o) # ""

SameLetter(a, b) == LowerChar(a) = LowerChar(b)

ContainsIgnoringCase(sub, s) ==
    \E i \in 0..(Len(s) - Len(sub)) : \A k \in 1..Len(sub) : SameLetter(s[i + k], sub[k])

Matches(t, status, keyword) ==
    /\ GivenStatus(status) => t.status = Val(status)
    /\ Given(keyword) =>
          \/ ContainsIgnoringCase(Val(keyword), t.title)
          \/ ContainsIgnoringCase(Val(keyword), t.description)

----------------------------------------------------------------------------
(* Properties of the reports *)
\* C7: _filter_tasks_by_date with no period_days and no start_date/end_date
\* returns the input collection unchanged.
FilterByDateIdentity ==
    [][FilterByDate(None, None, None) => (ret'.kind = "list" /\ ret'.items = snapshot)]_vars

InPeriod(task, period, now) ==
    period \in PeriodKeys => created_at(task) >= now - period_map(period) * TicksPerDay

InScope(period) == { i \in 1..Len(snapshot) : InPeriod(snapshot[i], period, clock) }

AnyReport ==
    \/ StatusReport
    \/ ProductivityReport
    \/ \E days \in 0..MaxDays : TimelineReport(days)
    \/ \E period \in Periods : SummaryReport(period)

\* C9 as stated: every report with zero tasks in scope returns the no-data
\* sentinel: all four on an empty snapshot, and generate_summary_report(period)
\* also when the snapshot has tasks but none created within the period.
NoDataWheneverScopeEmpty ==
    [][/\ (snapshot = <<>> /\ AnyReport) => ret' = NoData
       /\ \A period \in Periods :
             (SummaryReport(period) /\ InScope(period) = {}) => ret' = NoData]_vars

\* C9 as amended: all four reports return the sentinel on an empty snapshot;
\* on a snapshot with tasks none returns it, and generate_summary_report(period)
\* reports the number of tasks within the period, with zero rate, no most active
\* day and zero average when that number is 0.
NoDataOnEmptySnapshotOnly ==
    [][/\ (snapshot = <<>> /\ AnyReport) => ret' = NoData
       /\ (snapshot # <<>> /\ AnyReport) => ret'.kind # "error"
       /\ \A period \in Periods :
             (SummaryReport(period) /\ snapshot # <<>>) =>
                /\ ret'.kind = "summary"
                /\ ret'.total_tasks = Cardinality(InScope(period))
                /\ InScope(period) = {} =>
                      /\ ret'.completion_rate = 0
                      /\ ret'.most_active_day = [date |-> NO_DAY, tasks_created |-> 0]
                      /\ ret'.average_tasks_per_day = 0
                      /\ ret'.status_distribution = <<>>]_vars

\* a summary over a snapshot with tasks, none of them within the period
EmptyPeriodWitness ==
    /\ ret.kind = "summary"
    /\ ret.period = "week"
    /\ ret.total_tasks = 0
    /\ Len(snapshot) = 2

RECURSIVE SumCounts(_)
SumCounts(counts) == IF counts = <<>> THEN 0 ELSE Head(counts).n + SumCounts(Tail(counts))

\* C10: on a snapshot with tasks generate_timeline_report(days) returns days+1
\* entries, one per consecutive calendar day from today - days through today in
\* ascending order; each entry's total_tasks is the number of snapshot tasks
\* created on that day and the sum of the entry's per-status counts.
TimelineExact ==
    [][\A days \in 0..MaxDays :
          (TimelineReport(days) /\ snapshot # <<>>) =>
             /\ ret'.kind = "timeline"
             /\ Len(ret'.timeline) = days + 1
             /\ \A i \in 1..(days + 1) :
                   LET e == ret'.timeline[i]
                   IN /\ e.date = Date(clock) - days + (i - 1)
                      /\ e.total_tasks =
                            Cardinality({k \in 1..Len(snapshot) : Date(snapshot[k].created_at) = e.date})
                      /\ e.total_tasks = SumCounts(e.statuses)]_vars

\* three days, tasks on the first and the last, none on the day between
TimelineWitness ==
    /\ ret.kind = "timeline"
    /\ Len(ret.timeline) = 3
    /\ ret.timeline[1].total_tasks = 1
    /\ ret.timeline[2].total_tasks = 0
    /\ ret.timeline[3].total_tasks = 1
    /\ ret.timeline[3].date = Date(clock)

====
